---- MODULE Spec2Model ----
(***************************************************************************)
(* A model of the search orchestrator of demo/searchInfo: the matcher      *)
(* registry (search.go Register, default.go init), Run's fan-out of one    *)
(* goroutine per feed, Match's forwarding over the unbuffered channel, the *)
(* goroutine that waits on the WaitGroup and closes the channel, and       *)
(* Display's drain loop.                                                   *)
(*                                                                         *)
(* Granularity: one action per step a goroutine takes between two points   *)
(* where another goroutine can observe or influence it (a registry write,  *)
(* a go statement, a Search call returning, a channel rendezvous, a        *)
(* WaitGroup operation, a close).  A send on the unbuffered channel and    *)
(* Display's receive of it are one step, as in Go.                         *)
(*                                                                         *)
(* Matchers and the feed file are collaborators: a Search call returns     *)
(* any (results, err) pair over non-nil *Result values, RetrieveFeeds      *)
(* returns any list of non-nil *Feed values or an error.                   *)
(***************************************************************************)
EXTENDS Naturals, Integers, Sequences, FiniteSets, TLC

\* ------------------------------------------------------------------ bounds
\* Largest number of feeds RetrieveFeeds returns.
MaxFeeds == 2
\* Largest number of results one Search call returns.
MaxResults == 2

\* ------------------------------------------------------------------ domains
\* Type tags that occur in feeds and in registrations.
Tags == {"default", "rss"}
\* Matcher values; "nil" is the nil interface value a failed map lookup yields.
defaultMatcher == "defaultMatcher"
rssMatcher == "rssMatcher"
nilMatcher == "nil"
\* The matchers that the matchers package (imported by main.go) registers.
PluginMatchers == {rssMatcher}

\* Variant: a channel buffered for one result per feed.
ChanCapPerFeed == MaxFeeds

\* search.go:20: the capacity of make(chan *Result): none, the channel is
\* unbuffered.
ChanCap == 0

\* A Feed; Run and Match read only its Type (Name and URI are never read).
Feed(t) == [Type |-> t]

\* The k-th *Result that the Search call for feed i allocates.
Result(i, k) == [Field |-> i, Content |-> k]

VARIABLES
    status,      \* the process: "running", "fatal" (log.Fatal), "panic", "exited"
    pc,          \* the main goroutine's position
    matchers,    \* search.go: var matchers map[string]Matcher
    log,         \* what the log package has written
    feeds,       \* Run's local: the feeds RetrieveFeeds returned
    results,     \* Run's channel: "nil" (not made), "open", "closed"
    waitGroup,   \* Run's sync.WaitGroup counter
    next,        \* index of the feed the range loop of Run is at
    worker,      \* the goroutines started by the loop, in start order
    sentinel,    \* the goroutine of search.go:45-50: "none", "Wait", "close", "done"
    buffer,      \* the results the channel holds: sent and not yet received
    closes,      \* history: who executed close(results), in order
    received     \* the results Display has received and printed, in order

vars == <<status, pc, matchers, log, feeds, results, buffer, waitGroup, next,
          worker, sentinel, closes, received, buffer>>

Workers == 1..Len(worker)

\* Positions of a worker goroutine (search.go:38-41): "Match" before its
\* Search call returns, "send" inside the forwarding loop of Match, "Done"
\* once Match has returned and the deferred waitGroup.Done is due, "exit".
WorkerPcs == {"Match", "send", "Done", "exit"}

\* ------------------------------------------------------------------ helpers
RECURSIVE SeqsUpTo(_, _)
SeqsUpTo(S, n) ==
    IF n = 0 THEN {<<>>}
    ELSE LET shorter == SeqsUpTo(S, n - 1)
         IN shorter \cup {Append(s, x) : s \in {t \in shorter : Len(t) = n - 1}, x \in S}

\* The results a Search call for feed i returns when it returns n of them.
Found(i, n) == [k \in 1..n |-> Result(i, k)]

\* What a call match.Search(feed, searchTerm) can return: defaultMatcher
\* returns (nil, nil); any other matcher returns any results with or without
\* an error.
SearchReturns(m, i) ==
    IF m = defaultMatcher
    THEN {[found |-> <<>>, err |-> FALSE]}
    ELSE {[found |-> Found(i, n), err |-> e] : n \in 0..MaxResults, e \in BOOLEAN}

\* Variant: the lookup without the fallback to "default".
LookupNoFallback(feedType) ==
    IF feedType \in DOMAIN matchers THEN matchers[feedType] ELSE nilMatcher

\* search.go:32-35: the matcher Run resolves for a feed type.
Lookup(feedType) ==
    IF feedType \in DOMAIN matchers THEN matchers[feedType]
    ELSE IF "default" \in DOMAIN matchers THEN matchers["default"]
    ELSE nilMatcher

\* ------------------------------------------------------------------ initial state
Init ==
    /\ status = "running"
    /\ pc = "init"
    /\ matchers = << >>
    /\ log = << >>
    /\ feeds = << >>
    /\ results = "nil"
    /\ buffer = << >>
    /\ waitGroup = 0
    /\ next = 1
    /\ worker = << >>
    /\ sentinel = "none"
    /\ closes = << >>
    /\ received = << >>

\* ------------------------------------------------------------------ registry
\* Variant: Register without the exists check: the binding is overwritten.
RegisterOverwrite(feedType, matcher) ==
    /\ log' = Append(log, [msg |-> "Register", tag |-> feedType])
    /\ matchers' = [t \in DOMAIN matchers \cup {feedType} |->
                       IF t = feedType THEN matcher ELSE matchers[t]]
    /\ UNCHANGED status

\* search.go:57-63 Register.
Register(feedType, matcher) ==
    IF feedType \in DOMAIN matchers
    THEN /\ log' = Append(log, [msg |-> "Matcher already registered", tag |-> feedType])
         /\ status' = "fatal"
         /\ UNCHANGED matchers
    ELSE /\ log' = Append(log, [msg |-> "Register", tag |-> feedType])
         /\ matchers' = matchers @@ (feedType :> matcher)
         /\ UNCHANGED status

\* Variant: the search package's init does not register the default matcher.
DefaultInitNoRegister ==
    /\ status = "running"
    /\ pc = "init"
    /\ pc' = "plugins"
    /\ UNCHANGED <<status, matchers, log, feeds, results, waitGroup, next, worker,
                   sentinel, closes, received, buffer>>

\* default.go:8-11: the search package's init.
DefaultInit ==
    /\ status = "running"
    /\ pc = "init"
    /\ Register("default", defaultMatcher)
    /\ pc' = "plugins"
    /\ UNCHANGED <<feeds, results, waitGroup, next, worker, sentinel, closes, received, buffer>>

\* The init functions of the matchers package, which main.go imports: each
\* calls Register with its tag and matcher.
PluginInit(feedType, matcher) ==
    /\ status = "running"
    /\ pc = "plugins"
    /\ Register(feedType, matcher)
    /\ UNCHANGED <<pc, feeds, results, waitGroup, next, worker, sentinel, closes, received, buffer>>

\* main.go:17-19: main calls search.Run.
Main ==
    /\ status = "running"
    /\ pc = "plugins"
    /\ pc' = "Run"
    /\ UNCHANGED <<status, matchers, log, feeds, results, waitGroup, next, worker,
                   sentinel, closes, received, buffer>>

\* ------------------------------------------------------------------ Run
\* Variant: the error of RetrieveFeeds is logged with log.Println and Run
\* goes on with what was decoded.
RunRetrieveFeedsGoesOn ==
    /\ status = "running"
    /\ pc = "Run"
    /\ \E ok \in BOOLEAN :
         /\ \E ts \in SeqsUpTo(Tags, MaxFeeds) :
              feeds' = [k \in 1..Len(ts) |-> Feed(ts[k])]
         /\ pc' = "make"
         /\ log' = IF ok THEN log
                   ELSE Append(log, [msg |-> "RetrieveFeeds failed", tag |-> ""])
         /\ UNCHANGED status
    /\ UNCHANGED <<matchers, results, waitGroup, next, worker, sentinel, closes,
                   received, buffer>>

\* search.go:14-17 with RetrieveFeeds (part_000:18-32): the feed list, or a
\* fatal exit when RetrieveFeeds returns an error.  With the error
\* RetrieveFeeds returns nil (the file does not open) or what the decoder
\* had filled in (the file is malformed).
RunRetrieveFeeds ==
    /\ status = "running"
    /\ pc = "Run"
    /\ \E ok \in BOOLEAN :
         /\ \E ts \in SeqsUpTo(Tags, MaxFeeds) :
              feeds' = [k \in 1..Len(ts) |-> Feed(ts[k])]
         /\ IF ok
            THEN /\ pc' = "make"
                 /\ UNCHANGED <<status, log>>
            ELSE /\ log' = Append(log, [msg |-> "RetrieveFeeds failed", tag |-> ""])
                 /\ status' = "fatal"
                 /\ UNCHANGED pc
    /\ UNCHANGED <<matchers, results, waitGroup, next, worker, sentinel, closes,
                   received, buffer>>

\* Variant: the waitGroup.Add call is missing.
RunMakeNoAdd ==
    /\ status = "running"
    /\ pc = "make"
    /\ results' = "open"
    /\ next' = 1
    /\ pc' = "range"
    /\ UNCHANGED <<status, matchers, log, feeds, waitGroup, worker, sentinel, closes,
                   received, buffer>>

\* Variant: waitGroup.Add(1) once, instead of Add(len(feeds)).
RunMakeAddOne ==
    /\ status = "running"
    /\ pc = "make"
    /\ results' = "open"
    /\ waitGroup' = waitGroup + 1
    /\ next' = 1
    /\ pc' = "range"
    /\ UNCHANGED <<status, matchers, log, feeds, worker, sentinel, closes, received, buffer>>

\* search.go:20-27: make the unbuffered channel, waitGroup.Add(len(feeds)).
RunMake ==
    /\ status = "running"
    /\ pc = "make"
    /\ results' = "open"
    /\ waitGroup' = waitGroup + Len(feeds)
    /\ next' = 1
    /\ pc' = "range"
    /\ UNCHANGED <<status, matchers, log, feeds, worker, sentinel, closes, received, buffer>>

\* Variant: the goroutine's function reads the loop variable instead of
\* taking the feed as its argument, and sees the last feed.
NewWorkerSharedFeed(i, m) ==
    [feed |-> Len(feeds), matcher |-> m, pc |-> "Match", found |-> << >>, err |-> FALSE,
     sent |-> 0, searches |-> 0, dones |-> 0]

\* search.go:38: the goroutine the go statement starts for feed i with matcher m.
NewWorker(i, m) ==
    [feed |-> i, matcher |-> m, pc |-> "Match", found |-> << >>, err |-> FALSE,
     sent |-> 0, searches |-> 0, dones |-> 0]

\* Variant: the loop stores the matcher it resolved under the feed's type.
RunGoCaching ==
    /\ status = "running"
    /\ pc = "range"
    /\ next <= Len(feeds)
    /\ worker' = Append(worker, NewWorker(next, Lookup(feeds[next].Type)))
    /\ matchers' = [t \in DOMAIN matchers \cup {feeds[next].Type} |->
                       Lookup(t)]
    /\ next' = next + 1
    /\ UNCHANGED <<status, pc, log, feeds, results, waitGroup, sentinel,
                   closes, received, buffer>>

\* search.go:30-42: one iteration of the range loop: resolve the matcher of
\* the next feed and start its goroutine.
RunGo ==
    /\ status = "running"
    /\ pc = "range"
    /\ next <= Len(feeds)
    /\ worker' = Append(worker, NewWorker(next, Lookup(feeds[next].Type)))
    /\ next' = next + 1
    /\ UNCHANGED <<status, pc, matchers, log, feeds, results, waitGroup, sentinel,
                   closes, received, buffer>>

\* Variant: the goroutine that waits and closes is started only when there
\* are feeds.
RunGoSentinelIfFeeds ==
    /\ status = "running"
    /\ pc = "range"
    /\ next > Len(feeds)
    /\ sentinel' = IF Len(feeds) > 0 THEN "Wait" ELSE "none"
    /\ pc' = "Display"
    /\ UNCHANGED <<status, matchers, log, feeds, results, waitGroup, next, worker,
                   closes, received, buffer>>

\* Variant: Run itself waits for the counter and closes the channel before
\* it calls Display.
RunWaitsThenDisplay ==
    /\ status = "running"
    /\ pc = "range"
    /\ next > Len(feeds)
    /\ waitGroup = 0
    /\ results' = "closed"
    /\ closes' = Append(closes, "Run")
    /\ sentinel' = "done"
    /\ pc' = "Display"
    /\ UNCHANGED <<status, matchers, log, feeds, waitGroup, next, worker, received, buffer>>

\* search.go:45-53: after the loop, start the goroutine that waits and
\* closes, and enter Display.
RunGoSentinel ==
    /\ status = "running"
    /\ pc = "range"
    /\ next > Len(feeds)
    /\ sentinel' = "Wait"
    /\ pc' = "Display"
    /\ UNCHANGED <<status, matchers, log, feeds, results, waitGroup, next, worker,
                   closes, received, buffer>>

\* ------------------------------------------------------------------ workers
\* Variant: the error branch of Match lacks its return.
AfterSearchNoReturn(r) ==
    IF Len(r.found) = 0 THEN "Done" ELSE "send"

\* match.go:22-26: where Match goes once Search has returned r: to its
\* return on an error or an empty result list, into the loop otherwise.
AfterSearch(r) ==
    IF r.err \/ Len(r.found) = 0 THEN "Done" ELSE "send"

\* Variant: the error is reported with log.Fatal instead of log.Println.
OnSearchErrorFatal(st) == "fatal"

\* match.go:22-25: what Match does with the process on an error: it logs
\* with log.Println and returns; the process keeps running.
OnSearchError(st) == st

\* match.go:20-25 (called at search.go:39): Search returns; an error is
\* logged.  A nil matcher makes the call panic.
MatchSearch(i) ==
    /\ status = "running"
    /\ i \in Workers
    /\ worker[i].pc = "Match"
    /\ IF worker[i].matcher = nilMatcher
       THEN /\ status' = "panic"
            /\ UNCHANGED <<worker, log>>
       ELSE \E r \in SearchReturns(worker[i].matcher, worker[i].feed) :
              /\ worker' = [worker EXCEPT ![i].found = r.found,
                                          ![i].err = r.err,
                                          ![i].searches = @ + 1,
                                          ![i].pc = AfterSearch(r)]
              /\ IF r.err
                 THEN /\ log' = Append(log, [msg |-> "Search error", tag |-> i])
                      /\ status' = OnSearchError(status)
                 ELSE UNCHANGED <<log, status>>
    /\ UNCHANGED <<pc, matchers, feeds, results, waitGroup, next, sentinel, closes,
                   received, buffer>>

\* Variant: the loop sends the address of its loop variable, which holds the
\* last element by the time the results are read.
NextResultAliased(w) == w.found[Len(w.found)]

\* Variant: the loop walks the result list from its end.
NextResultBackwards(w) == w.found[Len(w.found) - w.sent]

\* match.go:26-27: the result the loop of Match sends next.
NextResult(w) == w.found[w.sent + 1]

\* match.go:33-34: Display receives a result and prints it.
DisplayReceive(rcvd, r) == Append(rcvd, r)

\* match.go:27 with match.go:33: worker i sends its next result.  A send on
\* a closed channel panics.  A channel with room left takes the result;
\* otherwise the send completes only with Display, blocked in its range
\* loop, receiving it in the same step.
MatchSend(i) ==
    /\ status = "running"
    /\ i \in Workers
    /\ worker[i].pc = "send"
    /\ IF results = "closed"
       THEN /\ status' = "panic"
            /\ UNCHANGED <<worker, received, buffer>>
       ELSE /\ IF Len(buffer) < ChanCap
               THEN /\ buffer' = Append(buffer, NextResult(worker[i]))
                    /\ UNCHANGED received
               ELSE /\ pc = "Display"
                    /\ buffer = << >>
                    /\ received' = DisplayReceive(received, NextResult(worker[i]))
                    /\ UNCHANGED buffer
            /\ worker' = [worker EXCEPT ![i].sent = @ + 1,
                                        ![i].pc = IF worker[i].sent + 1 = Len(worker[i].found)
                                                  THEN "Done" ELSE "send"]
            /\ UNCHANGED status
    /\ UNCHANGED <<pc, matchers, log, feeds, results, waitGroup, next, sentinel, closes>>

\* Variant: Done is called by the goroutine and a second time (deferred and
\* direct).
WorkerDoneTwice(i) ==
    /\ status = "running"
    /\ i \in Workers
    /\ worker[i].pc = "Done"
    /\ IF waitGroup < 2
       THEN /\ status' = "panic"
            /\ UNCHANGED <<waitGroup, worker>>
       ELSE /\ waitGroup' = waitGroup - 2
            /\ worker' = [worker EXCEPT ![i].dones = @ + 2, ![i].pc = "exit"]
            /\ UNCHANGED status
    /\ UNCHANGED <<pc, matchers, log, feeds, results, next, sentinel, closes, received, buffer>>

\* Variant: Done is called only when Search succeeded (a Done placed at the
\* end of Match instead of deferred in the goroutine).
WorkerDoneUnlessError(i) ==
    /\ status = "running"
    /\ i \in Workers
    /\ worker[i].pc = "Done"
    /\ IF worker[i].err
       THEN /\ worker' = [worker EXCEPT ![i].pc = "exit"]
            /\ UNCHANGED <<status, waitGroup>>
       ELSE IF waitGroup = 0
       THEN /\ status' = "panic"
            /\ UNCHANGED <<waitGroup, worker>>
       ELSE /\ waitGroup' = waitGroup - 1
            /\ worker' = [worker EXCEPT ![i].dones = @ + 1, ![i].pc = "exit"]
            /\ UNCHANGED status
    /\ UNCHANGED <<pc, matchers, log, feeds, results, next, sentinel, closes, received, buffer>>

\* search.go:40: the deferred waitGroup.Done runs when the goroutine's
\* function returns.  A counter that would go negative panics.
WorkerDone(i) ==
    /\ status = "running"
    /\ i \in Workers
    /\ worker[i].pc = "Done"
    /\ IF waitGroup = 0
       THEN /\ status' = "panic"
            /\ UNCHANGED <<waitGroup, worker>>
       ELSE /\ waitGroup' = waitGroup - 1
            /\ worker' = [worker EXCEPT ![i].dones = @ + 1, ![i].pc = "exit"]
            /\ UNCHANGED status
    /\ UNCHANGED <<pc, matchers, log, feeds, results, next, sentinel, closes, received, buffer>>

\* ------------------------------------------------------------------ sentinel
\* Variant: the goroutine closes without calling waitGroup.Wait.
SentinelNoWait ==
    /\ status = "running"
    /\ sentinel = "Wait"
    /\ sentinel' = "close"
    /\ UNCHANGED <<status, pc, matchers, log, feeds, results, waitGroup, next, worker,
                   closes, received, buffer>>

\* search.go:47: waitGroup.Wait returns once the counter is zero.
SentinelWait ==
    /\ status = "running"
    /\ sentinel = "Wait"
    /\ waitGroup = 0
    /\ sentinel' = "close"
    /\ UNCHANGED <<status, pc, matchers, log, feeds, results, waitGroup, next, worker,
                   closes, received, buffer>>

\* search.go:49: close(results).  Closing a closed channel panics.
SentinelClose ==
    /\ status = "running"
    /\ sentinel = "close"
    /\ IF results = "closed"
       THEN /\ status' = "panic"
            /\ UNCHANGED <<results, sentinel, closes>>
       ELSE /\ results' = "closed"
            /\ closes' = Append(closes, "sentinel")
            /\ sentinel' = "done"
            /\ UNCHANGED status
    /\ UNCHANGED <<pc, matchers, log, feeds, waitGroup, next, worker, received, buffer>>

\* ------------------------------------------------------------------ Display
\* Variant: Display closes the channel itself when its loop ends.
DisplayRangeClosing ==
    /\ status = "running"
    /\ pc = "Display"
    /\ results = "closed"
    /\ closes' = Append(closes, "Display")
    /\ status' = "panic"
    /\ UNCHANGED <<pc, matchers, log, feeds, results, waitGroup, next, worker, sentinel,
                   received, buffer>>

\* match.go:33-35 and search.go:53-54, main.go:18-19: the range loop of
\* Display without a sender at hand: it takes what the channel holds, and
\* ends when the channel is closed and empty; Display, Run and main then
\* return and the process exits.
DisplayRange ==
    /\ status = "running"
    /\ pc = "Display"
    /\ IF buffer # << >>
       THEN /\ received' = DisplayReceive(received, Head(buffer))
            /\ buffer' = Tail(buffer)
            /\ UNCHANGED <<pc, status>>
       ELSE /\ results = "closed"
            /\ pc' = "returned"
            /\ status' = "exited"
            /\ UNCHANGED <<received, buffer>>
    /\ UNCHANGED <<matchers, log, feeds, results, waitGroup, next, worker, sentinel,
                   closes>>

\* ------------------------------------------------------------------ specification
MainStep ==
    \/ DefaultInit
    \/ \E t \in Tags, m \in PluginMatchers : PluginInit(t, m)
    \/ Main
    \/ RunRetrieveFeeds
    \/ RunMake
    \/ RunGo
    \/ RunGoSentinel
    \/ DisplayRange

WorkerStep(i) ==
    \/ MatchSearch(i)
    \/ MatchSend(i)
    \/ WorkerDone(i)

SentinelStep ==
    \/ SentinelWait
    \/ SentinelClose

Next ==
    \/ MainStep
    \/ \E i \in 1..MaxFeeds : WorkerStep(i)
    \/ SentinelStep

Spec == Init /\ [][Next]_vars

\* The Go scheduler runs every goroutine that can take a step, and a sender
\* blocked on a channel whose receiver keeps receiving is eventually served.
FairSpec ==
    /\ Spec
    /\ WF_vars(MainStep)
    /\ \A i \in 1..MaxFeeds : WF_vars(WorkerStep(i))
    /\ WF_vars(SentinelStep)

\* As FairSpec, for matchers whose Search need not return: no fairness on
\* MatchSearch.
HangSpec ==
    /\ Spec
    /\ WF_vars(MainStep)
    /\ \A i \in 1..MaxFeeds : WF_vars(MatchSend(i) \/ WorkerDone(i))
    /\ WF_vars(SentinelStep)

TypeOK ==
    /\ status \in {"running", "fatal", "panic", "exited"}
    /\ pc \in {"init", "plugins", "Run", "make", "range", "Display", "returned"}
    /\ DOMAIN matchers \subseteq Tags
    /\ results \in {"nil", "open", "closed"}
    /\ waitGroup \in 0..MaxFeeds
    /\ Len(feeds) <= MaxFeeds
    /\ Len(worker) <= Len(feeds)
    /\ \A i \in Workers : worker[i].pc \in WorkerPcs
    /\ sentinel \in {"none", "Wait", "close", "done"}

\* ------------------------------------------------------------------ properties
Range(s) == {s[p] : p \in DOMAIN s}

\* Run has loaded its N feeds and goes on (search.go:20).
RunLoaded == status = "running" /\ pc = "make"

\* Run has returned: the channel is closed and Display's loop has ended.
RunReturned == results = "closed" /\ pc = "returned" /\ status = "exited"

\* C1: for every feed count and every success/failure of the matchers, every
\* fair execution of Run that has loaded its feeds reaches the state where
\* the channel is closed, Display's loop has exited and Run has returned;
\* and no state of a running process is a deadlock (some step is enabled).
C1_RunTerminates ==
    /\ RunLoaded ~> RunReturned
    /\ [](status = "running" => ENABLED Next)

\* C1 witness: Run has returned over two feeds, one matcher failed and the
\* other delivered results.
C1_Witness ==
    /\ RunReturned
    /\ Len(worker) = 2
    /\ worker[1].err
    /\ ~worker[2].err /\ worker[2].sent = 2

\* Worker j's matcher has succeeded while the matcher of another feed has
\* returned an error.
SucceededBesideFailure(j) ==
    /\ j \in Workers
    /\ worker[j].searches = 1 /\ ~worker[j].err
    /\ \E i \in Workers : i # j /\ worker[i].searches = 1 /\ worker[i].err

\* Every result the matcher of worker j returned has been received.
AllReceived(j) ==
    /\ j \in Workers
    /\ \A k \in 1..Len(worker[j].found) : worker[j].found[k] \in Range(received)

\* C2: once the matcher of some feed i has returned an error and the matcher
\* of another feed j has succeeded, every result of j is eventually received
\* by Display.
C2_Isolation ==
    \A j \in 1..MaxFeeds : SucceededBesideFailure(j) ~> AllReceived(j)

\* C2 witness: feed 1's matcher failed before feed 2's worker had sent
\* anything, and both results of feed 2 have been received since.
C2_Witness ==
    /\ Len(worker) = 2
    /\ worker[1].err /\ worker[1].pc = "Done"
    /\ ~worker[2].err /\ Len(worker[2].found) = 2
    /\ received = <<Result(2, 1), Result(2, 2)>>

\* C3: the results of one worker are received in the order its matcher
\* returned them: of two received results of the same feed, the one received
\* first comes first in the matcher's list; and what is received of a feed is
\* a prefix of that list.
C3_PerWorkerOrder ==
    /\ \A p \in DOMAIN received, q \in DOMAIN received :
         (p < q /\ received[p].Field = received[q].Field)
            => received[p].Content < received[q].Content
    /\ \A i \in Workers :
         SelectSeq(received, LAMBDA r : r.Field = i)
            = SubSeq(worker[i].found, 1, worker[i].sent)

\* C3 witness: the two results of feed 1 received with a result of feed 2
\* between them.
C3_Witness ==
    received = <<Result(1, 1), Result(2, 1), Result(1, 2)>>

\* C4: Register on a tag that is already bound is fatal: the step ends the
\* process, leaves the registry as it was, and is taken before Run; a
\* process ended by log.Fatal takes no further step, so no Run starts.
C4_DuplicateRegisterFatal ==
    [][ /\ \A t \in Tags, m \in PluginMatchers :
             (t \in DOMAIN matchers /\ PluginInit(t, m))
                => /\ status' = "fatal"
                   /\ matchers' = matchers
                   /\ pc' = "plugins" /\ results' = "nil" /\ worker' = << >>
        /\ status # "fatal"
      ]_vars

\* C4 witness: a second Register of "default" has ended the process; the
\* binding of "default" is the first one and Run has not started.
C4_Witness ==
    /\ status = "fatal"
    /\ pc = "plugins"
    /\ log[Len(log)] = [msg |-> "Matcher already registered", tag |-> "default"]
    /\ matchers["default"] = defaultMatcher

\* Feed i's type tag has no binding in the registry.
Unbound(i) == feeds[i].Type \notin DOMAIN matchers

\* The number of errors logged for feed i.
ErrorsLogged(i) ==
    Cardinality({p \in DOMAIN log : log[p] = [msg |-> "Search error", tag |-> i]})

\* C5: the worker of a feed whose type tag is unbound runs the matcher bound
\* to "default"; it forwards no result and logs no error, and once it is past
\* Match it completes: it is at its Done or has decremented the counter, and
\* has decremented it when Run returns.
C5_Fallback ==
    \A i \in Workers :
        Unbound(i) =>
            /\ "default" \in DOMAIN matchers
            /\ worker[i].matcher = matchers["default"]
            /\ worker[i].matcher = defaultMatcher
            /\ worker[i].found = << >> /\ worker[i].sent = 0
            /\ ~worker[i].err /\ ErrorsLogged(i) = 0
            /\ \A r \in Range(received) : r.Field # i
            /\ worker[i].pc \in {"Match", "Done", "exit"}
            /\ status # "panic"
            /\ (worker[i].pc = "exit" => worker[i].dones = 1)
            /\ (status = "exited" => worker[i].pc = "exit")

\* C5 witness: an "rss" feed with no "rss" matcher registered has been
\* searched by the default matcher and its worker has decremented the counter.
C5_Witness ==
    /\ Len(worker) >= 1
    /\ feeds[1].Type = "rss"
    /\ "rss" \notin DOMAIN matchers
    /\ worker[1].searches = 1
    /\ worker[1].dones = 1

\* What worker i has to forward: nothing on an error.
Forwardable(i) == IF worker[i].err THEN << >> ELSE worker[i].found

\* C6: when the channel is closed every feed has its worker, every worker has
\* returned from Match and decremented the counter, and every result it had
\* to forward has been received; no send on a closed channel (panic) occurs.
C6_NoCloseBeforeWorkersFinish ==
    /\ status # "panic"
    /\ results = "closed" =>
         /\ Len(worker) = Len(feeds)
         /\ \A i \in Workers :
              /\ worker[i].pc = "exit"
              /\ worker[i].sent = Len(Forwardable(i))
              /\ \A k \in 1..Len(Forwardable(i)) : Forwardable(i)[k] \in Range(received)

\* C6 witness: the channel is closed after two workers forwarded results.
C6_Witness ==
    /\ results = "closed"
    /\ Len(worker) = 2
    /\ worker[1].sent = 2 /\ worker[2].sent = 1

\* C7: the channel is closed at most once, only by the sentinel goroutine and
\* only after its Wait has returned with the counter at zero; when Run has
\* returned it has been closed exactly once.
C7_ClosedOnceBySentinel ==
    /\ Len(closes) <= 1
    /\ \A p \in DOMAIN closes : closes[p] = "sentinel"
    /\ (results = "closed") = (closes = <<"sentinel">>)
    /\ results = "closed" => (sentinel = "done" /\ waitGroup = 0)
    /\ sentinel \in {"none", "Wait"} => results # "closed"
    /\ pc = "returned" => closes = <<"sentinel">>
    /\ status # "panic"

\* C7 witness: Run has returned over two feeds and the sentinel's close is
\* the only one.
C7_Witness ==
    /\ pc = "returned"
    /\ Len(feeds) = 2
    /\ closes = <<"sentinel">>
    /\ sentinel = "done"

\* C8: a worker has decremented the counter exactly once when it has exited
\* and not at all before, whether its Search failed or succeeded; when Run
\* has returned every feed's worker has decremented once.
C8_DoneExactlyOnce ==
    /\ \A i \in Workers :
         worker[i].dones = (IF worker[i].pc = "exit" THEN 1 ELSE 0)
    /\ status = "exited" =>
         /\ Len(worker) = Len(feeds)
         /\ \A i \in Workers : worker[i].dones = 1
    /\ status # "panic"

\* C8 witness: two workers have exited, one after a failed Search and one
\* after forwarding a result, each with one decrement.
C8_Witness ==
    /\ Len(worker) = 2
    /\ worker[1].err /\ worker[1].pc = "exit" /\ worker[1].dones = 1
    /\ ~worker[2].err /\ worker[2].sent = 1 /\ worker[2].pc = "exit" /\ worker[2].dones = 1

\* C9: Search is called once per worker; a worker whose Search returned an
\* error has logged it once, has forwarded nothing and is at Done or exited;
\* errors are logged for failed workers only, and everything Display received
\* is a result of a matcher that succeeded.
C9_ErrorHandling ==
    /\ \A i \in Workers :
         /\ worker[i].searches = (IF worker[i].pc = "Match" THEN 0 ELSE 1)
         /\ ErrorsLogged(i) = (IF worker[i].err THEN 1 ELSE 0)
         /\ worker[i].err =>
              /\ worker[i].sent = 0
              /\ worker[i].pc \in {"Done", "exit"}
              /\ \A r \in Range(received) : r.Field # i
    /\ \A r \in Range(received) :
         /\ r.Field \in Workers
         /\ ~worker[r.Field].err
         /\ r \in Range(worker[r.Field].found)

\* C9 witness: a matcher returned results together with an error; the error
\* is logged, the worker has exited and nothing of it was received, while
\* another feed's result was.
C9_Witness ==
    /\ Len(worker) = 2
    /\ worker[1].err /\ Len(worker[1].found) = 2 /\ worker[1].pc = "exit"
    /\ ErrorsLogged(1) = 1
    /\ received = <<Result(2, 1)>>

Count(s, x) == Cardinality({p \in DOMAIN s : s[p] = x})

RECURSIVE Returned(_, _)
\* How often x occurs in the lists the matchers of workers 1..n returned
\* without an error.
Returned(n, x) ==
    IF n = 0 THEN 0
    ELSE (IF worker[n].err THEN 0 ELSE Count(worker[n].found, x)) + Returned(n - 1, x)

AllResults == {Result(i, k) : i \in 1..MaxFeeds, k \in 1..MaxResults}

\* C10: when Run has returned, every result occurs among the received ones
\* as often as in the lists returned by the matchers that succeeded.
C10_ExactDelivery ==
    RunReturned =>
        \A x \in AllResults \cup Range(received) :
            Count(received, x) = Returned(Len(worker), x)

\* C10 witness: two feeds, the first matcher returned one result and the
\* second failed while returning results; exactly the one result was received.
C10_Witness ==
    /\ RunReturned
    /\ Len(worker) = 2
    /\ ~worker[1].err /\ Len(worker[1].found) = 1
    /\ worker[2].err /\ Len(worker[2].found) = 1
    /\ received = <<Result(1, 1)>>

\* Run has loaded an empty feed list.
ZeroFeeds == pc \in {"make", "range", "Display", "returned"} /\ Len(feeds) = 0

\* C11: with zero feeds Run starts no worker, the counter is zero throughout,
\* the sentinel's Wait can return at once, Display receives nothing, no
\* running state is stuck, and every fair execution reaches Run's return.
C11_ZeroFeeds ==
    /\ [](ZeroFeeds =>
            /\ worker = << >>
            /\ waitGroup = 0
            /\ received = << >> /\ buffer = << >>
            /\ (sentinel = "Wait" => ENABLED SentinelWait)
            /\ (status = "running" => ENABLED Next))
    /\ (ZeroFeeds /\ pc = "make") ~> (ZeroFeeds /\ RunReturned)

\* C11 witness: Run has returned over an empty feed list after the sentinel
\* closed the channel.
C11_Witness ==
    /\ ZeroFeeds
    /\ RunReturned
    /\ sentinel = "done" /\ closes = <<"sentinel">>

\* RetrieveFeeds has returned an error to Run.
LoadFailed == \E p \in DOMAIN log : log[p].msg = "RetrieveFeeds failed"

\* C12: once loading the feeds has failed the process is ended by log.Fatal
\* inside Run before the channel is made: no channel, no counter, no worker,
\* no sentinel, nothing received, whatever list came with the error; and the
\* process takes no further step.
C12_LoadFailureFatal ==
    /\ [](LoadFailed =>
            /\ status = "fatal"
            /\ pc = "Run"
            /\ results = "nil" /\ buffer = << >>
            /\ waitGroup = 0
            /\ worker = << >>
            /\ sentinel = "none"
            /\ received = << >>)
    /\ [][~LoadFailed]_vars

\* C12 witness: loading failed with two feeds already decoded.
C12_Witness ==
    /\ LoadFailed
    /\ Len(feeds) = 2
    /\ status = "fatal"

\* The results of feed i that Display has received.
ReceivedOf(i) == SelectSeq(received, LAMBDA r : r.Field = i)

\* C13: the channel never holds a result: each forward a worker has completed
\* has been received by Display, so a worker that is about to forward its
\* result k+1 has had its results 1..k received.
C13_Rendezvous ==
    /\ buffer = << >>
    /\ \A i \in Workers :
         /\ Len(ReceivedOf(i)) = worker[i].sent
         /\ \A k \in 1..worker[i].sent : worker[i].found[k] \in Range(received)

\* C13 witness: worker 1 is about to forward its second result while worker 2
\* waits to forward its first; the first result of worker 1 has been received.
C13_Witness ==
    /\ Len(worker) = 2
    /\ worker[1].pc = "send" /\ worker[1].sent = 1
    /\ worker[2].pc = "send" /\ worker[2].sent = 0
    /\ received = <<Result(1, 1)>>

\* The matcher the registry gives for feed i: the one bound to its type tag
\* when there is one, the one bound to "default" when there is none.
BoundOrDefault(i) ==
    IF feeds[i].Type \in DOMAIN matchers
    THEN matchers[feeds[i].Type]
    ELSE matchers["default"]

\* C14: the k-th worker Run starts is the worker of the k-th feed, so no two
\* workers share a feed; its matcher is the one bound to the feed's type tag
\* when the tag is registered and the default one only when it is not; its
\* Search is called for that feed; and once the loop is over every feed has
\* its worker.
C14_OneWorkerPerFeed ==
    /\ Len(worker) <= Len(feeds)
    /\ \A i \in Workers :
         /\ worker[i].feed = i
         /\ worker[i].matcher = BoundOrDefault(i)
         /\ (feeds[i].Type \in DOMAIN matchers /\ matchers[feeds[i].Type] # defaultMatcher)
               => worker[i].matcher # defaultMatcher
         /\ \A r \in Range(worker[i].found) : r.Field = i
    /\ \A i \in Workers, j \in Workers : i # j => worker[i].feed # worker[j].feed
    /\ pc = "range" => Len(worker) = next - 1
    /\ pc \in {"Display", "returned"} => Len(worker) = Len(feeds)

\* C14 witness: an "rss" feed and a "default" feed with both tags registered;
\* each worker has searched its own feed with its own matcher.
C14_Witness ==
    /\ pc = "Display"
    /\ Len(worker) = 2
    /\ feeds = <<Feed("rss"), Feed("default")>>
    /\ "rss" \in DOMAIN matchers
    /\ worker[1].matcher = rssMatcher /\ Len(worker[1].found) = 1
    /\ worker[2].matcher = defaultMatcher /\ worker[2].searches = 1

\* The tags whose registration has been logged.
RegisteredTags == {log[p].tag : p \in {q \in DOMAIN log : log[q].msg = "Register"}}

\* C15: from the call of Run on, no step changes the registry; the registry
\* holds the bindings made by the registrations at initialization, and only
\* those.
C15_RegistryReadOnly ==
    /\ [][pc \notin {"init", "plugins"} => matchers' = matchers]_vars
    /\ [](DOMAIN matchers = RegisteredTags)

\* C15 witness: Run has returned after resolving an unregistered "rss" tag to
\* the default matcher; the registry still binds "default" alone.
C15_Witness ==
    /\ pc = "returned"
    /\ Len(worker) = 2
    /\ feeds[1].Type = "rss" /\ feeds[2].Type = "rss"
    /\ DOMAIN matchers = {"default"}

\* C16: once the search package is initialized "default" is bound, to the
\* default matcher; the lookup of Run yields a matcher for every tag, no
\* worker has a nil matcher, and the default matcher's Search returns no
\* result and no error for every feed.
C16_DefaultAlwaysBound ==
    /\ pc # "init" =>
         /\ "default" \in DOMAIN matchers
         /\ matchers["default"] = defaultMatcher
         /\ \A t \in Tags : Lookup(t) # nilMatcher
         /\ \A i \in 1..MaxFeeds :
              SearchReturns(matchers["default"], i) = {[found |-> << >>, err |-> FALSE]}
    /\ \A i \in Workers : worker[i].matcher # nilMatcher
    /\ status # "panic"

\* C16 witness: initialization is over, "default" and "rss" are bound, Run
\* has not been called.
C16_Witness ==
    /\ status = "running"
    /\ pc = "plugins"
    /\ DOMAIN matchers = {"default", "rss"}

RECURSIVE SumDones(_)
\* The number of decrements the workers 1..n have executed.
SumDones(n) == IF n = 0 THEN 0 ELSE worker[n].dones + SumDones(n - 1)

\* C17: when Run has returned the counter is zero, the channel is closed and
\* empty, the sentinel is done, every feed's worker has exited and everything
\* the workers had to forward has been received.
C17_TornDownAtReturn ==
    pc = "returned" =>
        /\ waitGroup = 0
        /\ results = "closed" /\ buffer = << >>
        /\ sentinel = "done"
        /\ Len(worker) = Len(feeds)
        /\ \A i \in Workers :
             /\ worker[i].pc = "exit"
             /\ ReceivedOf(i) = Forwardable(i)

\* C17 witness: Run has returned after one worker forwarded one result and
\* the other two.
C17_Witness ==
    /\ pc = "returned"
    /\ Len(worker) = 2
    /\ worker[1].sent = 1 /\ worker[2].sent = 2

\* C18: once the counter is set up it equals the number of feeds minus the
\* decrements executed and lies in 0..N; the sentinel is past its Wait only
\* with the counter at zero; no decrement makes it negative (panic).
C18_CounterInvariant ==
    /\ results # "nil" =>
         /\ waitGroup = Len(feeds) - SumDones(Len(worker))
         /\ waitGroup \in 0..Len(feeds)
    /\ sentinel \in {"close", "done"} => waitGroup = 0
    /\ status # "panic"

\* C18 witness: of two workers the second has decremented and the first is
\* still forwarding; the counter is one and the sentinel waits.
C18_Witness ==
    /\ Len(feeds) = 2 /\ Len(worker) = 2
    /\ worker[2].dones = 1
    /\ worker[1].pc = "send"
    /\ waitGroup = 1
    /\ sentinel = "Wait"

\* The Search call of worker s has not returned.
InSearch(s) == s \in Workers /\ worker[s].pc = "Match"

\* C19: as long as the Search of a worker has not returned, that worker has
\* not decremented, the counter is not zero, the sentinel has not closed and
\* Run has not returned (so never, if Search never returns); and the results
\* of every other worker whose Search succeeded are still received.
C19_HungSearch ==
    /\ [](\A s \in Workers :
            InSearch(s) =>
                /\ worker[s].dones = 0
                /\ waitGroup >= 1
                /\ sentinel \in {"none", "Wait"}
                /\ results = "open"
                /\ pc \in {"range", "Display"}
                /\ status # "exited")
    /\ \A j \in 1..MaxFeeds :
         ( /\ j \in Workers
           /\ worker[j].searches = 1 /\ ~worker[j].err
           /\ \E s \in Workers : s # j /\ InSearch(s) )
         ~> AllReceived(j)

\* C19 witness: the Search of worker 1 has not returned; worker 2 has
\* forwarded both its results and exited; the sentinel waits and Run is in
\* Display.
C19_Witness ==
    /\ Len(worker) = 2
    /\ InSearch(1)
    /\ worker[2].pc = "exit"
    /\ received = <<Result(2, 1), Result(2, 2)>>
    /\ sentinel = "Wait"
    /\ pc = "Display"

====
